---- MODULE Spec2Model ----
(***************************************************************************)
(* PMG1 power-modes example (src/main.c): a switch interrupt counts        *)
(* presses in SwitchPressCount, the main loop polls the counter and calls  *)
(* Cy_SysPm_CpuEnterSleep at 1 and Cy_SysPm_CpuEnterDeepSleep at 3, and    *)
(* the registered SysPm callbacks blink the user LED before the CPU        *)
(* suspends.  The PDL (cybsp_init, Cy_SysInt_Init, Cy_SysPm_*, CY_ASSERT)  *)
(* is not part of src/main.c; its steps follow sections 4.3, 5, 6 and 7 of *)
(* the specification.                                                      *)
(***************************************************************************)
EXTENDS Integers, Sequences, FiniteSets, TLC

(* ------------------------- program constants --------------------------- *)
LED_ON == 0
LED_OFF == 1
SLEEP_SWITCH_PRESS == 1
DEEP_SLEEP_SWITCH_PRESS == 3
BLINK_TIME_MS == 200
\* blink counts the two handlers pass to callback_function
SLEEP_BLINKS == 2
DEEP_SLEEP_BLINKS == 3
\* widths: int16_t SwitchPressCount, uint8_t count / mode / led_blink_count
Int16Max == 32767
Uint8Max == 255
Word16 == 65536

(* ------------------------------ bounds --------------------------------- *)
\* switch_isr runs allowed between two resets of the counter (Spec)
MaxEdges == 5
\* longest pin/delay log kept for one led_blink call
MaxLog == 1040
\* led_blink calls with num_toggles = 0 in a row that are told apart
MaxRepeat == 3

CY_SYSPM_SUCCESS == "SUCCESS"
CY_SYSPM_FAIL == "FAIL"
CY_SYSPM_CHECK_READY == "CHECK_READY"
CY_SYSPM_CHECK_FAIL == "CHECK_FAIL"
CY_SYSPM_BEFORE_TRANSITION == "BEFORE_TRANSITION"
CY_SYSPM_AFTER_TRANSITION == "AFTER_TRANSITION"
CY_SYSPM_SLEEP == "sleep"
CY_SYSPM_DEEPSLEEP == "deep"

VARIABLES
    SwitchPressCount,   \* volatile int16_t SwitchPressCount
    pc,                 \* position of the main thread
    led,                \* level of the user LED pin
    irqGlobal,          \* __enable_irq() done
    nvicEnabled,        \* NVIC_EnableIRQ(switch irq) done
    isrInstalled,       \* Cy_SysInt_Init installed switch_isr
    intrPending,        \* pending pin interrupt of the user button
    registered,         \* SysPm callbacks registered so far
    pmMode,             \* mode-entry primitive being executed, or "none"
    cbMode,             \* checkpoint of the last handler invocation
    cbRet,              \* status that invocation returned
    blink_time,         \* led_blink argument
    num_toggles,        \* led_blink argument
    count,              \* led_blink local, uint8_t
    blinkRet,           \* where led_blink returns to
    blinkLog,           \* pin writes and delays of the current led_blink call
    zeroBlinks,         \* led_blink calls with num_toggles = 0 in a row, up to MaxRepeat
    isrRuns,            \* runs of switch_isr since the counter was last reset
    iterCalls,          \* mode-entry calls made in the current loop iteration
    iterRead,           \* value the threshold read returned when a call was made
    lastIter,           \* how the last completed loop iteration ended
    initFailed,         \* initialization step that failed, or "none"
    ledDriven,          \* Cy_GPIO_Write to the LED pin ever executed
    entered,            \* a mode-entry primitive was ever called
    scn                 \* stage of the section-8 scenario, or "off"

vars == <<SwitchPressCount, pc, led, irqGlobal, nvicEnabled, isrInstalled,
          intrPending, registered, pmMode, cbMode, cbRet, blink_time,
          num_toggles, count, blinkRet, blinkLog, zeroBlinks, isrRuns,
          iterCalls, iterRead, lastIter, initFailed, ledDriven, entered, scn>>

hwVars == <<irqGlobal, nvicEnabled, isrInstalled, registered>>
blinkVars == <<blink_time, num_toggles, count, blinkRet, blinkLog, zeroBlinks>>
cbVars == <<cbMode, cbRet>>
iterVars == <<iterCalls, iterRead, lastIter>>
initGhost == <<initFailed, entered>>

(* --------------------------- integer widths ---------------------------- *)
\* conversion of an int to int16_t (two's complement, as the ARM GCC build does)
ToInt16(x) == ((x + Int16Max + 1) % Word16) - (Int16Max + 1)

\* conversion of an int to uint8_t
ToUint8(x) == x % (Uint8Max + 1)

\* conversion of an int to unsigned int (32 bit), as its two 16-bit halves
ToUint32(x) == [hi |-> (x \div Word16) % Word16, lo |-> x % Word16]

\* mutant: the threshold test as a range test
EqUnsigned_at_least(a, b) == a >= b

\* a == b with b an unsigned constant: a is converted to unsigned int first
EqUnsigned(a, b) == ToUint32(a) = ToUint32(b)

(* --------------------------- SysPm handlers ---------------------------- *)
\* mutant: ret_val keeps its initial CY_SYSPM_FAIL at check-ready
callback_function_veto(mode, led_blink_count) ==
    CASE mode = CY_SYSPM_BEFORE_TRANSITION ->
            [ret |-> CY_SYSPM_SUCCESS,
             blink |-> <<BLINK_TIME_MS, ToUint8(led_blink_count)>>]
      [] mode \in {CY_SYSPM_CHECK_READY, CY_SYSPM_CHECK_FAIL} ->
            [ret |-> CY_SYSPM_FAIL, blink |-> <<>>]
      [] OTHER ->
            [ret |-> CY_SYSPM_SUCCESS, blink |-> <<>>]

\* mutant: the default case leaves ret_val at its initial CY_SYSPM_FAIL
callback_function_default_fail(mode, led_blink_count) ==
    CASE mode = CY_SYSPM_CHECK_READY ->
            [ret |-> CY_SYSPM_SUCCESS, blink |-> <<>>]
      [] mode = CY_SYSPM_CHECK_FAIL ->
            [ret |-> CY_SYSPM_FAIL, blink |-> <<>>]
      [] mode = CY_SYSPM_BEFORE_TRANSITION ->
            [ret |-> CY_SYSPM_SUCCESS,
             blink |-> <<BLINK_TIME_MS, ToUint8(led_blink_count)>>]
      [] mode = CY_SYSPM_AFTER_TRANSITION ->
            [ret |-> CY_SYSPM_SUCCESS, blink |-> <<>>]
      [] OTHER ->
            [ret |-> CY_SYSPM_FAIL, blink |-> <<>>]

\* mutant: case CY_SYSPM_CHECK_FAIL without its break falls through into
\* case CY_SYSPM_BEFORE_TRANSITION
callback_function_fallthrough(mode, led_blink_count) ==
    CASE mode \in {CY_SYSPM_CHECK_FAIL, CY_SYSPM_BEFORE_TRANSITION} ->
            [ret |-> CY_SYSPM_SUCCESS,
             blink |-> <<BLINK_TIME_MS, ToUint8(led_blink_count)>>]
      [] OTHER ->
            [ret |-> CY_SYSPM_SUCCESS, blink |-> <<>>]

\* callback_function: the status it returns and the led_blink call it makes
\* (<<blink_time, num_toggles>>, or <<>> when it makes none)
callback_function(mode, led_blink_count) ==
    CASE mode = CY_SYSPM_CHECK_READY ->
            [ret |-> CY_SYSPM_SUCCESS, blink |-> <<>>]
      [] mode = CY_SYSPM_CHECK_FAIL ->
            [ret |-> CY_SYSPM_FAIL, blink |-> <<>>]
      [] mode = CY_SYSPM_BEFORE_TRANSITION ->
            [ret |-> CY_SYSPM_SUCCESS,
             blink |-> <<BLINK_TIME_MS, ToUint8(led_blink_count)>>]
      [] mode = CY_SYSPM_AFTER_TRANSITION ->
            [ret |-> CY_SYSPM_SUCCESS, blink |-> <<>>]
      [] OTHER ->
            [ret |-> CY_SYSPM_SUCCESS, blink |-> <<>>]

\* mutant: the sleep handler passes the deep-sleep blink count
sleep_callback_deep_count(mode) == callback_function(mode, DEEP_SLEEP_BLINKS)

sleep_callback(mode) == callback_function(mode, SLEEP_BLINKS)

deep_sleep_callback(mode) == callback_function(mode, DEEP_SLEEP_BLINKS)

\* the two registration records
sleep_cb == [callback |-> "sleep_callback", type |-> CY_SYSPM_SLEEP]

deep_sleep_cb == [callback |-> "deep_sleep_callback", type |-> CY_SYSPM_DEEPSLEEP]

\* the platform calling the handler registered for a power mode, if any
ExecuteCallback(type, mode) ==
    IF \E c \in registered : c.type = type
    THEN LET c == CHOOSE r \in registered : r.type = type
         IN  IF c.callback = "sleep_callback"
             THEN sleep_callback(mode)
             ELSE deep_sleep_callback(mode)
    ELSE [ret |-> CY_SYSPM_SUCCESS, blink |-> <<>>]

(* ----------------------------- interrupts ------------------------------ *)
\* the pending pin interrupt is taken: the CPU runs switch_isr next (a system
\* halted by the assertion trap executes nothing any more)
IrqLive ==
    intrPending /\ irqGlobal /\ nvicEnabled /\ isrInstalled /\ pc # "halted"

\* the main thread executes its next statement
CpuRuns == ~IrqLive

\* CY_ASSERT(CY_ASSERT_FAILED): the trap halts the main thread
CY_ASSERT(ok, next) == IF ok THEN next ELSE "halted"

\* stage of the scenario of section 8 after a run of switch_isr
ScnAfterIsr ==
    CASE scn = "start" -> "e1"
      [] scn = "e1" /\ pc = "wfi" /\ pmMode = CY_SYSPM_SLEEP -> "e2"
      [] scn = "e2idle" -> "e3"
      [] scn = "e3" /\ pc = "wfi" /\ pmMode = CY_SYSPM_DEEPSLEEP -> "e4"
      [] OTHER -> "off"

(* ------------------------------- Init ---------------------------------- *)
Init ==
    /\ SwitchPressCount = 0
    /\ pc = "cybsp_init"
    /\ led \in {LED_ON, LED_OFF}
    /\ irqGlobal = FALSE
    /\ nvicEnabled = FALSE
    /\ isrInstalled = FALSE
    /\ intrPending = FALSE
    /\ registered = {}
    /\ pmMode = "none"
    /\ cbMode = "none"
    /\ cbRet = "none"
    /\ blink_time = 0
    /\ num_toggles = 0
    /\ count = 0
    /\ blinkRet = "none"
    /\ blinkLog = <<>>
    /\ zeroBlinks = 0
    /\ isrRuns = 0
    /\ iterCalls = <<>>
    /\ iterRead = <<>>
    /\ lastIter = "none"
    /\ initFailed = "none"
    /\ ledDriven = FALSE
    /\ entered = FALSE
    /\ scn = "start"

(* ------------------------ main: initialization ------------------------- *)
\* mutant: the result of cybsp_init is not checked
main_cybsp_init_unchecked ==
    /\ pc = "cybsp_init"
    /\ CpuRuns
    /\ \E ok \in BOOLEAN :
          /\ pc' = "enable_irq"
          /\ initFailed' = IF ok THEN initFailed ELSE "cybsp_init"
          /\ scn' = IF ok THEN scn ELSE "off"
    /\ UNCHANGED <<SwitchPressCount, led, hwVars, intrPending, pmMode, cbVars,
                   blinkVars, isrRuns, iterVars, ledDriven, entered>>

\* result = cybsp_init(); if (result != CY_RSLT_SUCCESS) CY_ASSERT(0);
main_cybsp_init ==
    /\ pc = "cybsp_init"
    /\ CpuRuns
    /\ \E ok \in BOOLEAN :
          /\ pc' = CY_ASSERT(ok, "enable_irq")
          /\ initFailed' = IF ok THEN initFailed ELSE "cybsp_init"
          /\ scn' = IF ok THEN scn ELSE "off"
    /\ UNCHANGED <<SwitchPressCount, led, hwVars, intrPending, pmMode, cbVars,
                   blinkVars, isrRuns, iterVars, ledDriven, entered>>

\* __enable_irq();
main_enable_irq ==
    /\ pc = "enable_irq"
    /\ CpuRuns
    /\ irqGlobal' = TRUE
    /\ pc' = "sysint_init"
    /\ UNCHANGED <<SwitchPressCount, led, nvicEnabled, isrInstalled, registered,
                   intrPending, pmMode, cbVars, blinkVars, isrRuns, iterVars,
                   initGhost, ledDriven, scn>>

\* intr_result = Cy_SysInt_Init(&switch_intr_config, switch_isr); CY_ASSERT on failure
main_sysint_init ==
    /\ pc = "sysint_init"
    /\ CpuRuns
    /\ \E ok \in BOOLEAN :
          /\ pc' = CY_ASSERT(ok, "nvic_enable")
          /\ isrInstalled' = ok
          /\ initFailed' = IF ok THEN initFailed ELSE "sysint_init"
          /\ scn' = IF ok THEN scn ELSE "off"
    /\ UNCHANGED <<SwitchPressCount, led, irqGlobal, nvicEnabled, registered,
                   intrPending, pmMode, cbVars, blinkVars, isrRuns, iterVars,
                   ledDriven, entered>>

\* NVIC_EnableIRQ(switch_intr_config.intrSrc);
main_nvic_enable ==
    /\ pc = "nvic_enable"
    /\ CpuRuns
    /\ nvicEnabled' = TRUE
    /\ pc' = "register_sleep"
    /\ UNCHANGED <<SwitchPressCount, led, irqGlobal, isrInstalled, registered,
                   intrPending, pmMode, cbVars, blinkVars, isrRuns, iterVars,
                   initGhost, ledDriven, scn>>

\* cb_result = Cy_SysPm_RegisterCallback(&sleep_cb); CY_ASSERT on failure
main_register_sleep ==
    /\ pc = "register_sleep"
    /\ CpuRuns
    /\ \E ok \in BOOLEAN :
          /\ pc' = CY_ASSERT(ok, "register_deep")
          /\ registered' = IF ok THEN registered \cup {sleep_cb} ELSE registered
          /\ initFailed' = IF ok THEN initFailed ELSE "register_sleep"
          /\ scn' = IF ok THEN scn ELSE "off"
    /\ UNCHANGED <<SwitchPressCount, led, irqGlobal, nvicEnabled, isrInstalled,
                   intrPending, pmMode, cbVars, blinkVars, isrRuns, iterVars,
                   ledDriven, entered>>

\* cb_result = Cy_SysPm_RegisterCallback(&deep_sleep_cb); CY_ASSERT on failure
main_register_deep ==
    /\ pc = "register_deep"
    /\ CpuRuns
    /\ \E ok \in BOOLEAN :
          /\ pc' = CY_ASSERT(ok, "led_on")
          /\ registered' = IF ok THEN registered \cup {deep_sleep_cb} ELSE registered
          /\ initFailed' = IF ok THEN initFailed ELSE "register_deep"
          /\ scn' = IF ok THEN scn ELSE "off"
    /\ UNCHANGED <<SwitchPressCount, led, irqGlobal, nvicEnabled, isrInstalled,
                   intrPending, pmMode, cbVars, blinkVars, isrRuns, iterVars,
                   ledDriven, entered>>

(* ----------------------------- main: loop ------------------------------ *)
\* how an iteration that called the primitive of mode m ended: the CPU
\* suspended and woke, or the transition was abandoned
IterOutcome(m) ==
    IF cbMode = CY_SYSPM_AFTER_TRANSITION THEN m ELSE m \o "_vetoed"

\* mutant: the LED_ON write hoisted out of the loop, done in the first
\* iteration only
main_led_on_once ==
    /\ pc = "led_on"
    /\ CpuRuns
    /\ led' = IF lastIter = "none" THEN LED_ON ELSE led
    /\ ledDriven' = TRUE
    /\ iterCalls' = <<>>
    /\ iterRead' = <<>>
    /\ pc' = "read_sleep"
    /\ UNCHANGED <<SwitchPressCount, hwVars, intrPending, pmMode, cbVars,
                   blinkVars, isrRuns, lastIter, initGhost, scn>>

\* Cy_GPIO_Write(CYBSP_USER_LED_PORT, CYBSP_USER_LED_NUM, LED_ON);
main_led_on ==
    /\ pc = "led_on"
    /\ CpuRuns
    /\ led' = LED_ON
    /\ ledDriven' = TRUE
    /\ iterCalls' = <<>>
    /\ iterRead' = <<>>
    /\ pc' = "read_sleep"
    /\ UNCHANGED <<SwitchPressCount, hwVars, intrPending, pmMode, cbVars,
                   blinkVars, isrRuns, lastIter, initGhost, scn>>

\* if (SwitchPressCount == SLEEP_SWITCH_PRESS) { Cy_SysPm_CpuEnterSleep(); } else ...
main_read_sleep ==
    /\ pc = "read_sleep"
    /\ CpuRuns
    /\ IF EqUnsigned(SwitchPressCount, SLEEP_SWITCH_PRESS)
       THEN /\ pc' = "pm_check_ready"
            /\ pmMode' = CY_SYSPM_SLEEP
            /\ iterCalls' = Append(iterCalls, CY_SYSPM_SLEEP)
            /\ iterRead' = <<SwitchPressCount>>
            /\ entered' = TRUE
       ELSE /\ pc' = "read_deep"
            /\ UNCHANGED <<pmMode, iterCalls, iterRead, entered>>
    /\ UNCHANGED <<SwitchPressCount, led, hwVars, intrPending, cbVars, blinkVars,
                   isrRuns, lastIter, initFailed, ledDriven, scn>>

\* else if (SwitchPressCount == DEEP_SLEEP_SWITCH_PRESS) { Cy_SysPm_CpuEnterDeepSleep(); ...
main_read_deep ==
    /\ pc = "read_deep"
    /\ CpuRuns
    /\ IF EqUnsigned(SwitchPressCount, DEEP_SLEEP_SWITCH_PRESS)
       THEN /\ pc' = "pm_check_ready"
            /\ pmMode' = CY_SYSPM_DEEPSLEEP
            /\ iterCalls' = Append(iterCalls, CY_SYSPM_DEEPSLEEP)
            /\ iterRead' = <<SwitchPressCount>>
            /\ entered' = TRUE
            /\ UNCHANGED <<lastIter, scn>>
       ELSE /\ pc' = "led_on"
            /\ lastIter' = "idle"
            /\ scn' = IF scn = "e2" THEN "e2idle" ELSE scn
            /\ UNCHANGED <<pmMode, iterCalls, iterRead, entered>>
    /\ UNCHANGED <<SwitchPressCount, led, hwVars, intrPending, cbVars, blinkVars,
                   isrRuns, initFailed, ledDriven>>

\* mutant: the light-sleep branch resets the counter like the deep-sleep one
main_after_sleep_reset ==
    /\ pc = "sleep_done"
    /\ CpuRuns
    /\ SwitchPressCount' = 0
    /\ isrRuns' = 0
    /\ pc' = "led_on"
    /\ lastIter' = IterOutcome(CY_SYSPM_SLEEP)
    /\ cbMode' = "none"
    /\ cbRet' = "none"
    /\ UNCHANGED <<led, hwVars, intrPending, pmMode, blinkVars,
                   iterCalls, iterRead, initGhost, ledDriven, scn>>

\* Cy_SysPm_CpuEnterSleep() has returned, its status is discarded: the if
\* branch ends, the loop restarts
main_after_sleep ==
    /\ pc = "sleep_done"
    /\ CpuRuns
    /\ pc' = "led_on"
    /\ lastIter' = IterOutcome(CY_SYSPM_SLEEP)
    /\ cbMode' = "none"
    /\ cbRet' = "none"
    /\ UNCHANGED <<SwitchPressCount, led, hwVars, intrPending, pmMode,
                   blinkVars, isrRuns, iterCalls, iterRead, initGhost,
                   ledDriven, scn>>

\* mutant: the deep-sleep branch without its reset of the counter
main_after_deep_no_reset ==
    /\ pc = "deep_done"
    /\ CpuRuns
    /\ pc' = "led_on"
    /\ lastIter' = IterOutcome(CY_SYSPM_DEEPSLEEP)
    /\ cbMode' = "none"
    /\ cbRet' = "none"
    /\ scn' = IF scn = "e4" THEN "done" ELSE "off"
    /\ UNCHANGED <<SwitchPressCount, isrRuns, led, hwVars, intrPending, pmMode,
                   blinkVars, iterCalls, iterRead, initGhost, ledDriven>>

\* mutant: the counter is reset only when the device did enter deep sleep
main_after_deep_reset_if_entered ==
    /\ pc = "deep_done"
    /\ CpuRuns
    /\ SwitchPressCount' =
          IF cbMode = CY_SYSPM_AFTER_TRANSITION THEN 0 ELSE SwitchPressCount
    /\ isrRuns' = IF cbMode = CY_SYSPM_AFTER_TRANSITION THEN 0 ELSE isrRuns
    /\ pc' = "led_on"
    /\ lastIter' = IterOutcome(CY_SYSPM_DEEPSLEEP)
    /\ cbMode' = "none"
    /\ cbRet' = "none"
    /\ scn' = IF scn = "e4" THEN "done" ELSE "off"
    /\ UNCHANGED <<led, hwVars, intrPending, pmMode, blinkVars,
                   iterCalls, iterRead, initGhost, ledDriven>>

\* Cy_SysPm_CpuEnterDeepSleep() has returned, its status is discarded:
\* SwitchPressCount = 0;
main_after_deep ==
    /\ pc = "deep_done"
    /\ CpuRuns
    /\ SwitchPressCount' = 0
    /\ isrRuns' = 0
    /\ pc' = "led_on"
    /\ lastIter' = IterOutcome(CY_SYSPM_DEEPSLEEP)
    /\ cbMode' = "none"
    /\ cbRet' = "none"
    /\ scn' = IF scn = "e4" THEN "done" ELSE "off"
    /\ UNCHANGED <<led, hwVars, intrPending, pmMode, blinkVars,
                   iterCalls, iterRead, initGhost, ledDriven>>

(* ------------------------------ led_blink ------------------------------ *)
\* mutant: the loop test with <= in place of <
LoopTest_inclusive(c, n) == IF c <= n THEN "blink_off" ELSE "blink_final"

\* for (count = 0; count < num_toggles; count++): where the loop test leads
LoopTest(c, n) == IF c < n THEN "blink_off" ELSE "blink_final"

\* a call led_blink(t, n) returning to ret: count = 0 and the first loop test
led_blink(t, n, ret) ==
    /\ blink_time' = t
    /\ num_toggles' = n
    /\ count' = 0
    /\ blinkRet' = ret
    /\ blinkLog' = <<>>
    /\ zeroBlinks' = IF n # 0 THEN 0
                     ELSE IF zeroBlinks < MaxRepeat THEN zeroBlinks + 1
                     ELSE zeroBlinks
    /\ pc' = LoopTest(0, n)

\* the log of pin writes and delays keeps its first MaxLog entries
LogAppend(log, e) == IF Len(log) < MaxLog THEN Append(log, e) ELSE log

\* Cy_GPIO_Write(CYBSP_USER_LED_PORT, CYBSP_USER_LED_NUM, LED_OFF); in the loop
led_blink_off ==
    /\ pc = "blink_off"
    /\ CpuRuns
    /\ led' = LED_OFF
    /\ ledDriven' = TRUE
    /\ blinkLog' = LogAppend(blinkLog, <<"write", LED_OFF>>)
    /\ pc' = "blink_delay_off"
    /\ UNCHANGED <<SwitchPressCount, hwVars, intrPending, pmMode, cbVars,
                   blink_time, num_toggles, count, blinkRet, zeroBlinks, isrRuns,
                   iterVars,
                   initGhost, scn>>

\* Cy_SysLib_Delay(blink_time); after the off write
led_blink_delay_off ==
    /\ pc = "blink_delay_off"
    /\ CpuRuns
    /\ blinkLog' = LogAppend(blinkLog, <<"delay", blink_time>>)
    /\ pc' = "blink_on"
    /\ UNCHANGED <<SwitchPressCount, led, hwVars, intrPending, pmMode, cbVars,
                   blink_time, num_toggles, count, blinkRet, zeroBlinks, isrRuns,
                   iterVars,
                   initGhost, ledDriven, scn>>

\* Cy_GPIO_Write(CYBSP_USER_LED_PORT, CYBSP_USER_LED_NUM, LED_ON); in the loop
led_blink_on ==
    /\ pc = "blink_on"
    /\ CpuRuns
    /\ led' = LED_ON
    /\ ledDriven' = TRUE
    /\ blinkLog' = LogAppend(blinkLog, <<"write", LED_ON>>)
    /\ pc' = "blink_delay_on"
    /\ UNCHANGED <<SwitchPressCount, hwVars, intrPending, pmMode, cbVars,
                   blink_time, num_toggles, count, blinkRet, zeroBlinks, isrRuns,
                   iterVars,
                   initGhost, scn>>

\* Cy_SysLib_Delay(blink_time); after the on write, then count++ and the loop test
led_blink_delay_on ==
    /\ pc = "blink_delay_on"
    /\ CpuRuns
    /\ blinkLog' = LogAppend(blinkLog, <<"delay", blink_time>>)
    /\ count' = ToUint8(count + 1)
    /\ pc' = LoopTest(count', num_toggles)
    /\ UNCHANGED <<SwitchPressCount, led, hwVars, intrPending, pmMode, cbVars,
                   blink_time, num_toggles, blinkRet, zeroBlinks, isrRuns,
                   iterVars,
                   initGhost, ledDriven, scn>>

\* mutant: the closing write of led_blink drives the pin to LED_ON
led_blink_final_on ==
    /\ pc = "blink_final"
    /\ CpuRuns
    /\ led' = LED_ON
    /\ ledDriven' = TRUE
    /\ blinkLog' = LogAppend(blinkLog, <<"write", LED_ON>>)
    /\ pc' = blinkRet
    /\ UNCHANGED <<SwitchPressCount, hwVars, intrPending, pmMode, cbVars,
                   blink_time, num_toggles, count, blinkRet, zeroBlinks, isrRuns,
                   iterVars, initGhost, scn>>

\* Cy_GPIO_Write(CYBSP_USER_LED_PORT, CYBSP_USER_LED_NUM, LED_OFF); and return
led_blink_final ==
    /\ pc = "blink_final"
    /\ CpuRuns
    /\ led' = LED_OFF
    /\ ledDriven' = TRUE
    /\ blinkLog' = LogAppend(blinkLog, <<"write", LED_OFF>>)
    /\ pc' = blinkRet
    /\ UNCHANGED <<SwitchPressCount, hwVars, intrPending, pmMode, cbVars,
                   blink_time, num_toggles, count, blinkRet, zeroBlinks, isrRuns,
                   iterVars,
                   initGhost, scn>>

(* ------------------- platform: mode-entry primitives ------------------- *)
\* the platform runs a handler whose result is h and continues at ret: the
\* led_blink call the handler makes, if any, runs first
InvokeHandler(h, ret) ==
    IF h.blink # <<>>
    THEN led_blink(h.blink[1], h.blink[2], ret)
    ELSE /\ pc' = ret
         /\ UNCHANGED blinkVars

\* check-ready: the registered handler is asked, then the other handlers of
\* the system, any of which may veto the transition
Cy_SysPm_CheckReady ==
    /\ pc = "pm_check_ready"
    /\ CpuRuns
    /\ \E veto \in BOOLEAN :
          LET h == ExecuteCallback(pmMode, CY_SYSPM_CHECK_READY)
              r == h.ret
          IN  /\ cbMode' = CY_SYSPM_CHECK_READY
              /\ cbRet' = r
              /\ InvokeHandler(h, IF r # CY_SYSPM_SUCCESS THEN "pm_return"
                                  ELSE IF veto THEN "pm_check_fail"
                                  ELSE "pm_before")
              /\ scn' = IF r # CY_SYSPM_SUCCESS \/ veto THEN "off" ELSE scn
    /\ UNCHANGED <<SwitchPressCount, led, hwVars, intrPending, pmMode,
                   isrRuns, iterVars, initGhost, ledDriven>>

\* check-failed: the transition was vetoed; the handler is told, its status is
\* ignored, and the primitive returns without suspending the CPU
Cy_SysPm_CheckFail ==
    /\ pc = "pm_check_fail"
    /\ CpuRuns
    /\ cbMode' = CY_SYSPM_CHECK_FAIL
    /\ cbRet' = ExecuteCallback(pmMode, CY_SYSPM_CHECK_FAIL).ret
    /\ InvokeHandler(ExecuteCallback(pmMode, CY_SYSPM_CHECK_FAIL), "pm_return")
    /\ UNCHANGED <<SwitchPressCount, led, hwVars, intrPending, pmMode,
                   isrRuns, iterVars, initGhost, ledDriven, scn>>

\* before-transition: the handler runs; callback_function calls led_blink here
Cy_SysPm_BeforeTransition ==
    /\ pc = "pm_before"
    /\ CpuRuns
    /\ cbMode' = CY_SYSPM_BEFORE_TRANSITION
    /\ cbRet' = "running"
    /\ InvokeHandler(ExecuteCallback(pmMode, CY_SYSPM_BEFORE_TRANSITION),
                     "cb_before_ret")
    /\ UNCHANGED <<SwitchPressCount, led, hwVars, intrPending, pmMode,
                   isrRuns, iterVars, initGhost, ledDriven, scn>>

\* the handler returns from before-transition and the CPU suspends (WFI)
Cy_SysPm_Suspend ==
    /\ pc = "cb_before_ret"
    /\ CpuRuns
    /\ cbRet' = ExecuteCallback(pmMode, CY_SYSPM_BEFORE_TRANSITION).ret
    /\ pc' = "wfi"
    /\ UNCHANGED <<SwitchPressCount, led, hwVars, intrPending, pmMode, cbMode,
                   blinkVars, isrRuns, iterVars, initGhost, ledDriven, scn>>

\* after-transition: the CPU has resumed, the handler is told
Cy_SysPm_AfterTransition ==
    /\ pc = "pm_after"
    /\ CpuRuns
    /\ cbMode' = CY_SYSPM_AFTER_TRANSITION
    /\ cbRet' = ExecuteCallback(pmMode, CY_SYSPM_AFTER_TRANSITION).ret
    /\ InvokeHandler(ExecuteCallback(pmMode, CY_SYSPM_AFTER_TRANSITION), "pm_return")
    /\ UNCHANGED <<SwitchPressCount, led, hwVars, intrPending, pmMode,
                   isrRuns, iterVars, initGhost, ledDriven, scn>>

\* the mode-entry primitive returns to the statement after its call in main
\* (cbMode and cbRet tell how the call ended); the led_blink frame is dead
\* from here
Cy_SysPm_Return ==
    /\ pc = "pm_return"
    /\ CpuRuns
    /\ pc' = IF pmMode = CY_SYSPM_SLEEP THEN "sleep_done" ELSE "deep_done"
    /\ pmMode' = "none"
    /\ blink_time' = 0
    /\ num_toggles' = 0
    /\ count' = 0
    /\ blinkRet' = "none"
    /\ blinkLog' = <<>>
    /\ zeroBlinks' = 0
    /\ UNCHANGED <<SwitchPressCount, led, hwVars, intrPending, cbVars, isrRuns,
                   iterVars, initGhost, ledDriven, scn>>

(* ------------------------- input edge and ISR -------------------------- *)
\* a qualifying edge on the button pin sets the pin's pending interrupt; at
\* most limit runs of switch_isr are let through between two counter resets
InputEdge(limit) ==
    /\ ~intrPending
    /\ isrRuns < limit
    /\ intrPending' = TRUE
    /\ UNCHANGED <<SwitchPressCount, pc, led, hwVars, pmMode, cbVars,
                   blinkVars, isrRuns, iterVars, initGhost, ledDriven, scn>>

\* the exception return of an interrupt that woke the CPU resumes after the WFI
WakeFromWfi(p) == IF p = "wfi" THEN "pm_after" ELSE p

\* mutant: the interrupt handler also signals the press on the user LED
switch_isr_led_off ==
    /\ IrqLive
    /\ SwitchPressCount' = ToInt16(SwitchPressCount + 1)
    /\ intrPending' = FALSE
    /\ isrRuns' = isrRuns + 1
    /\ led' = LED_OFF
    /\ ledDriven' = TRUE
    /\ pc' = WakeFromWfi(pc)
    /\ scn' = ScnAfterIsr
    /\ UNCHANGED <<hwVars, pmMode, cbVars, blinkVars, iterVars, initGhost>>

\* switch_isr: SwitchPressCount++; Cy_GPIO_ClearInterrupt(...);
switch_isr ==
    /\ IrqLive
    /\ SwitchPressCount' = ToInt16(SwitchPressCount + 1)
    /\ intrPending' = FALSE
    /\ isrRuns' = isrRuns + 1
    /\ pc' = WakeFromWfi(pc)
    /\ scn' = ScnAfterIsr
    /\ UNCHANGED <<led, hwVars, pmMode, cbVars, blinkVars, iterVars,
                   initGhost, ledDriven>>

(* --------------------------- specifications ---------------------------- *)
MainStep ==
    \/ main_cybsp_init
    \/ main_enable_irq
    \/ main_sysint_init
    \/ main_nvic_enable
    \/ main_register_sleep
    \/ main_register_deep
    \/ main_led_on
    \/ main_read_sleep
    \/ main_read_deep
    \/ main_after_sleep
    \/ main_after_deep
    \/ led_blink_off
    \/ led_blink_delay_off
    \/ led_blink_on
    \/ led_blink_delay_on
    \/ led_blink_final
    \/ Cy_SysPm_CheckReady
    \/ Cy_SysPm_CheckFail
    \/ Cy_SysPm_BeforeTransition
    \/ Cy_SysPm_Suspend
    \/ Cy_SysPm_AfterTransition
    \/ Cy_SysPm_Return

Next == MainStep \/ switch_isr \/ InputEdge(MaxEdges)

\* the program with at most MaxEdges counted edges between two resets
Spec == Init /\ [][Next]_vars

\* the main thread always executes its next statement unless the CPU is
\* suspended or halted, and a pending enabled interrupt is always taken;
\* input edges are up to the environment
SpecFair == Spec /\ WF_vars(MainStep) /\ WF_vars(switch_isr)

NextWrap == MainStep \/ switch_isr \/ InputEdge(Int16Max + 1)

\* the program with enough edges for the 16-bit counter to overflow once
SpecWrap == Init /\ [][NextWrap]_vars

(* ------------------------ led_blink on its own ------------------------- *)
\* num_toggles values led_blink is called with: none, few, and both sides of
\* the range of its uint8_t loop counter
BlinkInputs == {0, 1, 2, 3, Uint8Max, Uint8Max + 1}

\* blink_time values led_blink is called with
BlinkTimes == {BLINK_TIME_MS, 1}

InitBlink ==
    /\ SwitchPressCount = 0
    /\ pc = "caller"
    /\ led \in {LED_ON, LED_OFF}
    /\ irqGlobal = FALSE
    /\ nvicEnabled = FALSE
    /\ isrInstalled = FALSE
    /\ intrPending = FALSE
    /\ registered = {}
    /\ pmMode = "none"
    /\ cbMode = "none"
    /\ cbRet = "none"
    /\ blink_time = 0
    /\ num_toggles = 0
    /\ count = 0
    /\ blinkRet = "none"
    /\ blinkLog = <<>>
    /\ zeroBlinks = 0
    /\ isrRuns = 0
    /\ iterCalls = <<>>
    /\ iterRead = <<>>
    /\ lastIter = "none"
    /\ initFailed = "none"
    /\ ledDriven = FALSE
    /\ entered = FALSE
    /\ scn = "off"

\* a caller invoking led_blink(t, n), again after each return
CallBlink ==
    /\ pc = "caller"
    /\ \E t \in BlinkTimes, n \in BlinkInputs : led_blink(t, n, "caller")
    /\ UNCHANGED <<SwitchPressCount, led, hwVars, intrPending, pmMode, cbVars,
                   isrRuns, iterVars, initGhost, ledDriven, scn>>

NextBlink ==
    \/ CallBlink
    \/ led_blink_off
    \/ led_blink_delay_off
    \/ led_blink_on
    \/ led_blink_delay_on
    \/ led_blink_final

\* led_blink as a function of its arguments
SpecBlink == InitBlink /\ [][NextBlink]_vars

\* a statement of led_blink
BlinkStep ==
    \/ led_blink_off
    \/ led_blink_delay_off
    \/ led_blink_on
    \/ led_blink_delay_on
    \/ led_blink_final

\* led_blink with the CPU always executing its next statement (the delays
\* are finite busy waits)
SpecBlinkFair == SpecBlink /\ WF_vars(BlinkStep)

(* ----------------------- the handlers on their own --------------------- *)
\* values of the uint8_t mode argument that are none of the four checkpoints
UnrecognisedModes == {"0x00", "0x10", "0xFF"}

\* mode values the handlers are invoked with
CallbackModes ==
    {CY_SYSPM_CHECK_READY, CY_SYSPM_CHECK_FAIL, CY_SYSPM_BEFORE_TRANSITION,
     CY_SYSPM_AFTER_TRANSITION} \cup UnrecognisedModes

\* values of SwitchPressCount the handlers are invoked at
HandlerCounts == {0, SLEEP_SWITCH_PRESS, DEEP_SLEEP_SWITCH_PRESS}

InitHandler ==
    /\ SwitchPressCount \in HandlerCounts
    /\ pc = "hcaller"
    /\ led \in {LED_ON, LED_OFF}
    /\ irqGlobal = TRUE
    /\ nvicEnabled = TRUE
    /\ isrInstalled = TRUE
    /\ intrPending = FALSE
    /\ registered = {sleep_cb, deep_sleep_cb}
    /\ pmMode = "none"
    /\ cbMode = "none"
    /\ cbRet = "none"
    /\ blink_time = 0
    /\ num_toggles = 0
    /\ count = 0
    /\ blinkRet = "none"
    /\ blinkLog = <<>>
    /\ zeroBlinks = 0
    /\ isrRuns = SwitchPressCount
    /\ iterCalls = <<>>
    /\ iterRead = <<>>
    /\ lastIter = "none"
    /\ initFailed = "none"
    /\ ledDriven = FALSE
    /\ entered = FALSE
    /\ scn = "off"

\* the handler registered for a power mode is invoked with a mode value, and
\* again after it has returned
CallHandler ==
    /\ pc = "hcaller"
    /\ \E type \in {CY_SYSPM_SLEEP, CY_SYSPM_DEEPSLEEP}, m \in CallbackModes :
          /\ pmMode' = type
          /\ cbMode' = m
          /\ cbRet' = ExecuteCallback(type, m).ret
          /\ InvokeHandler(ExecuteCallback(type, m), "hcaller")
    /\ UNCHANGED <<SwitchPressCount, led, hwVars, intrPending, isrRuns,
                   iterVars, initGhost, ledDriven, scn>>

NextHandler ==
    \/ CallHandler
    \/ led_blink_off
    \/ led_blink_delay_off
    \/ led_blink_on
    \/ led_blink_delay_on
    \/ led_blink_final

\* sleep_callback and deep_sleep_callback as functions of their mode argument
SpecHandler == InitHandler /\ [][NextHandler]_vars

(* ------------------------------- claims -------------------------------- *)

\* C1: for every number N of runs of switch_isr since the main loop last
\* reset the counter, SwitchPressCount equals N: no increment is lost or
\* doubled, whatever the interleaving with the main loop.
C1_CountEqualsEdges == SwitchPressCount = isrRuns

\* C1 below the overflow of the 16-bit counter: up to Int16Max runs of
\* switch_isr since the last reset, SwitchPressCount equals their number.
C1_CountEqualsEdgesBelowOverflow ==
    isrRuns <= Int16Max => SwitchPressCount = isrRuns

\* C9: SwitchPressCount is never negative, with the counter a signed 16-bit
\* integer whose increment wraps modulo 2^16.
C9_PressCountNonNegative == SwitchPressCount >= 0

\* one off/on cycle of the indicator with interval t
BlinkCycle(t) ==
    << <<"write", LED_OFF>>, <<"delay", t>>, <<"write", LED_ON>>, <<"delay", t>> >>

\* n off/on cycles with interval t followed by the closing off write
RECURSIVE CyclesThenOff(_, _)
CyclesThenOff(t, n) ==
    IF n = 0 THEN << <<"write", LED_OFF>> >>
    ELSE BlinkCycle(t) \o CyclesThenOff(t, n - 1)

\* the step is one of the main thread (switch_isr alone clears the pending flag)
MainThreadStep == ~(intrPending /\ ~intrPending')

\* C2, state part: while the light-sleep primitive runs it is the only
\* mode-entry call of an iteration whose read returned 1; when the CPU
\* suspends in light sleep the before-transition blink has made exactly 2
\* off/on cycles of 200 ms; and a light sleep that suspended resumes only
\* once a further edge was counted, so the same occurrence of the value 1
\* is not attempted again.
C2_LightSleepState ==
    /\ (pmMode = CY_SYSPM_SLEEP \/ pc = "sleep_done") =>
            /\ iterCalls = <<CY_SYSPM_SLEEP>>
            /\ iterRead = <<SLEEP_SWITCH_PRESS>>
    /\ (pmMode = CY_SYSPM_SLEEP /\ pc = "wfi") =>
            /\ blinkLog = CyclesThenOff(200, 2)
            /\ cbMode = CY_SYSPM_BEFORE_TRANSITION
    /\ (pmMode = CY_SYSPM_SLEEP /\ pc = "pm_after") => isrRuns > 1

\* C2, step part: no step of the main thread in the light-sleep branch
\* writes SwitchPressCount, and the branch ends the iteration.
C2_LightSleepStep ==
    /\ ((pmMode = CY_SYSPM_SLEEP \/ pmMode' = CY_SYSPM_SLEEP \/ pc = "sleep_done")
            /\ MainThreadStep)
         => SwitchPressCount' = SwitchPressCount
    /\ (pc = "sleep_done" /\ pc' # pc) => pc' = "led_on"

C3_DeepSleepState ==
    (pmMode = CY_SYSPM_DEEPSLEEP /\ pc = "wfi") =>
        /\ blinkLog = CyclesThenOff(200, 3)
        /\ cbMode = CY_SYSPM_BEFORE_TRANSITION

\* C3, step part: the deep-sleep call returns to the reset statement, and the
\* next step of the main thread sets SwitchPressCount to 0 and only then
\* starts the next iteration (and its reads).
C3_DeepSleepStep ==
    /\ (pmMode = CY_SYSPM_DEEPSLEEP /\ pmMode' # pmMode) => pc' = "deep_done"
    /\ (pc = "deep_done" /\ MainThreadStep /\ pc' # pc) =>
            /\ SwitchPressCount' = 0
            /\ pc' = "led_on"
    /\ (pc' \in {"read_sleep", "read_deep"} /\ pc # pc') =>
            pc \in {"led_on", "read_sleep"}

MainLoopStopped == pc \in {"halted", "wfi"}

\* C4: under a fair main loop, whenever SwitchPressCount takes the value 1 a
\* light-sleep mode-entry is eventually attempted, and whenever it takes the
\* value 3 a deep-sleep mode-entry is eventually attempted (a system that
\* halts or stays suspended instead is not held against the claim).
C4_ThresholdValueLeadsToEntry ==
    /\ (SwitchPressCount = 1) ~> (pmMode = CY_SYSPM_SLEEP \/ MainLoopStopped)
    /\ (SwitchPressCount = 3) ~> (pmMode = CY_SYSPM_DEEPSLEEP \/ MainLoopStopped)

\* positions of the main thread in the polling loop, outside any call
LoopPcs == {"led_on", "read_sleep", "read_deep"}

\* positions of a mode-entry primitive after the CPU has resumed
ResumedPcs == {"pm_after", "pm_return"}

\* C5, state part: what holds at each stage of the scenario (edges delivered
\* one at a time: the 1st from count 0, the 2nd while suspended in light
\* sleep, the 3rd after an idle iteration, the 4th while suspended in deep sleep)
C5_ScenarioState ==
    /\ scn = "start" => SwitchPressCount = 0 /\ ~entered
    /\ scn = "e1" =>
          /\ SwitchPressCount = 1
          /\ pmMode \in {"none", CY_SYSPM_SLEEP}
          /\ pc # "deep_done"
          /\ pc = "wfi" => blinkLog = CyclesThenOff(200, 2)
    /\ scn \in {"e2", "e2idle"} =>
          /\ SwitchPressCount = 2
          /\ \/ pmMode = CY_SYSPM_SLEEP /\ pc \in ResumedPcs
             \/ pmMode = "none" /\ pc \in LoopPcs \cup {"sleep_done"}
    /\ scn = "e2idle" => lastIter = "idle"
    /\ scn = "e3" =>
          /\ SwitchPressCount = 3
          /\ \/ pmMode = "none" /\ pc \in LoopPcs
             \/ pmMode = CY_SYSPM_DEEPSLEEP /\ pc \notin ResumedPcs
          /\ pc = "wfi" => blinkLog = CyclesThenOff(200, 3)
    /\ scn = "e4" =>
          /\ SwitchPressCount = 4
          /\ \/ pmMode = CY_SYSPM_DEEPSLEEP /\ pc \in ResumedPcs
             \/ pmMode = "none" /\ pc = "deep_done"
    /\ scn = "done" =>
          /\ SwitchPressCount = 0
          /\ pmMode = "none"
          /\ pc \in LoopPcs

\* C5: from count 0 the first edge makes the count 1 and triggers light sleep
\* with 2 blinks, the count staying 1; the next edge makes it 2 and no
\* transition is attempted; the next makes it 3 and triggers deep sleep with
\* 3 blinks; after the wake the count is reset to 0.
C5_ScenarioTrace ==
    /\ []C5_ScenarioState
    /\ (scn = "e1") ~> (scn = "off" \/ (pc = "wfi" /\ pmMode = CY_SYSPM_SLEEP))
    /\ (scn = "e2") ~> (scn \in {"off", "e2idle"})
    /\ (scn = "e3") ~> (scn = "off" \/ (pc = "wfi" /\ pmMode = CY_SYSPM_DEEPSLEEP))
    /\ (scn = "e4") ~> (scn \in {"off", "done"})

\* C5 witness: the whole scenario has run and the count is back to 0.
C5_Witness == scn = "done" /\ SwitchPressCount = 0 /\ pc = "read_sleep"

\* C6, step part: a mode-entry primitive is called only by the read that
\* returned its threshold; a read of any other value calls nothing and
\* writes nothing; the main thread writes the counter only after deep sleep.
C6_EntryStep ==
    /\ (pmMode' = CY_SYSPM_SLEEP /\ pmMode # pmMode') =>
            pc = "read_sleep" /\ SwitchPressCount = 1
    /\ (pmMode' = CY_SYSPM_DEEPSLEEP /\ pmMode # pmMode') =>
            pc = "read_deep" /\ SwitchPressCount = 3
    /\ (pc = "read_sleep" /\ pc' # pc /\ SwitchPressCount # 1) =>
            /\ pc' = "read_deep"
            /\ pmMode' = "none"
            /\ SwitchPressCount' = SwitchPressCount
    /\ (pc = "read_deep" /\ pc' # pc /\ SwitchPressCount # 3) =>
            /\ pc' = "led_on"
            /\ pmMode' = "none"
            /\ SwitchPressCount' = SwitchPressCount
            /\ iterCalls' = <<>>
    /\ (MainThreadStep /\ SwitchPressCount' # SwitchPressCount) =>
            pc = "deep_done" /\ iterRead = <<3>>

\* C6, state part: inside a mode-entry call the iteration's read returned the
\* threshold of that mode.
C6_EntryState ==
    /\ pmMode = CY_SYSPM_SLEEP => iterRead = <<1>>
    /\ pmMode = CY_SYSPM_DEEPSLEEP => iterRead = <<3>>
    /\ pc \in {"read_sleep", "read_deep"} => iterCalls = <<>> /\ pmMode = "none"

\* C6: the main loop calls the light-sleep primitive only in an iteration
\* whose read returned 1 and the deep-sleep primitive only in one whose read
\* returned 3; in an iteration whose reads return anything else (0, 2, more
\* than 3, negative) no primitive is called and the counter is not written.
C6_EntryOnlyAtThreshold == []C6_EntryState /\ [][C6_EntryStep]_vars

\* C6 witness: an iteration that read a negative count has ended idle.
C6_Witness ==
    /\ SwitchPressCount < 0
    /\ lastIter = "idle"
    /\ pc = "led_on"
    /\ iterCalls = <<>>
    /\ ~intrPending

BlinkLogEntry(i, t, n) ==
    IF i = 4 * n + 1 THEN <<"write", LED_OFF>>
    ELSE BlinkCycle(t)[((i - 1) % 4) + 1]

\* number of entries of a given kind in a log
CountOf(log, kind) == Cardinality({i \in 1..Len(log) : log[i][1] = kind})

\* led_blink has returned to its caller
BlinkReturned == pc = blinkRet

\* C8: led_blink(blink_time, num_toggles) writes the pin in the order off,
\* delay, on, delay, num_toggles times, then off once more: for every
\* num_toggles it makes 2*num_toggles+1 pin writes and 2*num_toggles delays
\* of blink_time, and leaves the pin off.
C8_BlinkOrderAndCounts ==
    /\ Len(blinkLog) <= 4 * num_toggles + 1
    /\ \A i \in 1..Len(blinkLog) :
          blinkLog[i] = BlinkLogEntry(i, blink_time, num_toggles)
    /\ BlinkReturned =>
          /\ CountOf(blinkLog, "write") = 2 * num_toggles + 1
          /\ CountOf(blinkLog, "delay") = 2 * num_toggles
          /\ led = LED_OFF

\* C8 for the num_toggles values the uint8_t loop counter can reach
C8_BlinkOrderAndCountsUpToUint8Max ==
    num_toggles <= Uint8Max => C8_BlinkOrderAndCounts

\* C10, state part: after a failed initialization step the main thread is
\* halted, no later step has run, the LED pin was never written and no
\* mode-entry primitive was ever called.
C10_InitFailureState ==
    /\ initFailed # "none" =>
          /\ pc = "halted"
          /\ ~ledDriven
          /\ ~entered
          /\ pmMode = "none"
          /\ lastIter = "none"
    /\ initFailed = "cybsp_init" =>
          ~irqGlobal /\ ~isrInstalled /\ ~nvicEnabled /\ registered = {}
    /\ initFailed = "sysint_init" =>
          ~isrInstalled /\ ~nvicEnabled /\ registered = {}
    /\ initFailed = "register_sleep" => registered = {}
    /\ initFailed = "register_deep" => registered = {sleep_cb}
    /\ pc = "halted" => initFailed # "none"

\* C10, step part: a halted system stays halted and nothing but the pending
\* flag of the pin changes any more.
C10_InitFailureStep ==
    pc = "halted" =>
        /\ pc' = "halted"
        /\ UNCHANGED <<SwitchPressCount, led, hwVars, pmMode, ledDriven, entered>>

\* C10: if board bootstrap, interrupt registration or either callback
\* registration fails the system halts at that point: the main loop is never
\* entered, no later initialization step runs, the indicator is never driven
\* and no mode-entry primitive is ever called.
C10_InitFailureHalts == []C10_InitFailureState /\ [][C10_InitFailureStep]_vars

\* C10 witness: the last registration failed; the system is halted with an
\* input edge pending that nothing handles.
C10_Witness ==
    /\ initFailed = "register_deep"
    /\ pc = "halted"
    /\ intrPending

\* a mode-entry attempt was vetoed at check-ready and has not yet returned
\* past the statement after its call in main
VetoedAttempt ==
    \/ pc = "pm_check_fail"
    \/ cbMode = CY_SYSPM_CHECK_FAIL /\ pc \in {"pm_return", "sleep_done", "deep_done"}

\* C11, state part: during a vetoed attempt no led_blink call was made and
\* the system is neither suspended nor halted.
C11_VetoState ==
    VetoedAttempt =>
        /\ blinkLog = <<>>
        /\ pc \notin {"wfi", "halted", "blink_off", "blink_on", "blink_final"}

\* C11, step part: a vetoed attempt goes from check-failed straight to the
\* return of the primitive and to the statement after the call in main, then
\* to the top of the loop, without writing the indicator pin.
C11_VetoStep ==
    (VetoedAttempt /\ MainThreadStep /\ pc' # pc) =>
        /\ led' = led
        /\ pc = "pm_check_fail" => pc' = "pm_return"
        /\ pc = "pm_return" => pc' \in {"sleep_done", "deep_done"}
        /\ pc \in {"sleep_done", "deep_done"} => pc' = "led_on"

\* C11: when a transition is vetoed at check-ready the low-power entry is
\* abandoned: the CPU does not suspend, no before-transition blink is made,
\* the system does not halt, and control returns to the main polling loop,
\* which goes on to its next threshold read.
C11_VetoAbandonsTransition ==
    /\ []C11_VetoState
    /\ [][C11_VetoStep]_vars
    /\ (pc = "pm_check_fail") ~>
          (pc = "read_sleep" /\ lastIter \in {"sleep_vetoed", "deep_vetoed"})

\* C11 witness: after a vetoed light-sleep attempt the loop is polling again
\* with the indicator on and the count still 1.
C11_Witness ==
    /\ lastIter = "sleep_vetoed"
    /\ pc = "read_sleep"
    /\ led = LED_ON
    /\ SwitchPressCount = 1
    /\ pmMode = "none"

\* C12: between two consecutive reads of SwitchPressCount by the main loop
\* the counter advances by at most one, so no threshold is skipped.  Stated
\* for the two consecutive reads around a light-sleep call, with the blink
\* and the suspended state in between: the read that made the call returned
\* 1, so the first read of the next iteration finds at most 2.
C12_NoThresholdSkipped ==
    (pc = "read_sleep" /\ lastIter \in {"sleep", "sleep_vetoed"}) =>
        SwitchPressCount <= SLEEP_SWITCH_PRESS + 1

\* positions of the main thread inside led_blink
BlinkPcs == {"blink_off", "blink_delay_off", "blink_on", "blink_delay_on",
             "blink_final"}

\* the step is a run of switch_isr
IsrStep == intrPending /\ ~intrPending'

\* C13, state part: led_blink runs only on behalf of the before-transition
\* checkpoint of a handler, inside a mode-entry call.
C13_BlinkState ==
    pc \in BlinkPcs =>
        /\ cbMode = CY_SYSPM_BEFORE_TRANSITION
        /\ blinkRet = "cb_before_ret"
        /\ pmMode \in {CY_SYSPM_SLEEP, CY_SYSPM_DEEPSLEEP}

\* C13, step part: led_blink is entered only from the before-transition
\* checkpoint; the pin changes level only inside led_blink or at the LED_ON
\* write of the main loop; a run of switch_isr adds one to SwitchPressCount,
\* clears the pending pin interrupt, returns at once to where the main thread
\* was (or after the WFI it woke), and touches neither the pin, the blink nor
\* the mode-entry state.
C13_BlinkStep ==
    /\ (pc \notin BlinkPcs /\ pc' \in BlinkPcs) => pc = "pm_before"
    /\ (led' # led \/ blinkLog' # blinkLog) =>
            ~IsrStep /\ pc \in BlinkPcs \cup {"led_on", "pm_return"}
    /\ led' # led => pc \in BlinkPcs \cup {"led_on"}
    /\ IsrStep =>
            /\ SwitchPressCount' = SwitchPressCount + 1
            /\ UNCHANGED <<led, ledDriven, pmMode, cbVars, blinkVars, iterCalls>>
            /\ pc' = pc \/ (pc = "wfi" /\ pc' = "pm_after")

C14_CheckpointState ==
    /\ pc \in BlinkPcs => cbMode = CY_SYSPM_BEFORE_TRANSITION
    /\ cbMode \in UnrecognisedModes => cbRet = CY_SYSPM_SUCCESS

\* C14, step part: an invocation at any mode value other than
\* before-transition returns at once without a led_blink call; the pin is
\* written only by led_blink during a before-transition invocation; no
\* invocation writes SwitchPressCount.
C14_CheckpointStep ==
    /\ (pc = "hcaller" /\ cbMode' # CY_SYSPM_BEFORE_TRANSITION) =>
            /\ pc' = "hcaller"
            /\ UNCHANGED <<led, ledDriven, blinkVars>>
    /\ (led' # led \/ ledDriven' # ledDriven) =>
            pc \in BlinkPcs /\ cbMode = CY_SYSPM_BEFORE_TRANSITION
    /\ SwitchPressCount' = SwitchPressCount

C15_IndicatorOnWhenActive ==
    pc \in {"read_sleep", "read_deep", "sleep_done", "deep_done"} =>
        led = LED_ON

\* C15 amended, state part: the indicator is on at every comparison; on
\* return from a mode-entry call it is off when the CPU had suspended (the
\* blink left it off) and on when the attempt was abandoned.
C15_IndicatorState ==
    /\ pc \in {"read_sleep", "read_deep"} => led = LED_ON
    /\ (pc \in {"sleep_done", "deep_done"} /\ cbMode = CY_SYSPM_AFTER_TRANSITION)
          => led = LED_OFF
    /\ (pc \in {"sleep_done", "deep_done"} /\ cbMode # CY_SYSPM_AFTER_TRANSITION)
          => led = LED_ON

\* C15 amended, step part: after the return of a mode-entry call the next
\* statements of the main thread restart the loop and force the indicator on
\* before the next comparison.
C15_IndicatorStep ==
    /\ (pc \in {"sleep_done", "deep_done"} /\ MainThreadStep /\ pc' # pc) =>
            pc' = "led_on"
    /\ (pc = "led_on" /\ MainThreadStep /\ pc' # pc) =>
            led' = LED_ON /\ pc' = "read_sleep"

\* C15 amended: the indicator is on at every comparison of SwitchPressCount
\* against a threshold; on return from a mode-entry call that suspended the
\* CPU it is off, and the LED_ON write at the top of the next iteration
\* turns it on before the next comparison.
C15_IndicatorOnAtComparisons ==
    []C15_IndicatorState /\ [][C15_IndicatorStep]_vars

\* C15 witness: the CPU woke from light sleep, the loop restarted and the
\* indicator is on again at the next comparison.
C15_Witness ==
    /\ pc = "read_sleep"
    /\ lastIter = "sleep"
    /\ led = LED_ON
    /\ SwitchPressCount = 2

\* C16, state part: a led_blink call with num_toggles = 0 goes straight to
\* its closing off write; when it has returned it has made that one write,
\* no on write and no delay, and the pin is off; from the second such call
\* in a row on the pin is off throughout.
C16_ZeroBlinkState ==
    /\ (zeroBlinks >= 1 /\ pc # blinkRet) =>
            pc = "blink_final" /\ blinkLog = <<>>
    /\ (zeroBlinks >= 1 /\ pc = blinkRet) =>
            /\ blinkLog = << <<"write", LED_OFF>> >>
            /\ led = LED_OFF
    /\ zeroBlinks >= 2 => led = LED_OFF

\* C16, step part: from the second call with num_toggles = 0 in a row on, no
\* step changes the level of the pin.
C16_ZeroBlinkStep == (zeroBlinks >= 2 /\ zeroBlinks' >= 2) => led' = led

\* C16: calling led_blink with num_toggles = 0 any number of times in a row
\* makes no off/on cycle and leaves the pin off; a second such call leaves
\* the pin exactly as the first left it.
C16_ZeroBlinkIdempotent == []C16_ZeroBlinkState /\ [][C16_ZeroBlinkStep]_vars

\* C16 witness: MaxRepeat calls with num_toggles = 0 in a row have returned.
C16_Witness ==
    /\ zeroBlinks = MaxRepeat
    /\ pc = "caller"
    /\ led = LED_OFF
    /\ blinkLog = << <<"write", LED_OFF>> >>

\* C17: led_blink(blink_time, num_toggles) terminates for every value of
\* num_toggles, its loop counter being a uint8_t that wraps modulo 2^8: a
\* call always eventually returns with the pin off.
C17_BlinkTerminates ==
    (pc \in BlinkPcs) ~> (pc = "caller" /\ led = LED_OFF)

\* C17 for the num_toggles values the uint8_t loop counter can reach.
C17_BlinkTerminatesUpToUint8Max ==
    (pc \in BlinkPcs /\ num_toggles <= Uint8Max) ~> (pc = "caller" /\ led = LED_OFF)

\* the CPU is suspended, or about to suspend with the before-transition
\* handler done
SuspendPcs == {"cb_before_ret", "wfi"}

\* C18, state part: while the CPU is suspended the pin is off, and the last
\* pin write was the closing off write of the before-transition blink.
C18_SuspendedState ==
    pc \in SuspendPcs =>
        /\ led = LED_OFF
        /\ cbMode = CY_SYSPM_BEFORE_TRANSITION
        /\ blinkLog # <<>>
        /\ blinkLog[Len(blinkLog)] = <<"write", LED_OFF>>

\* C18, step part: from the end of the blink to the wake event no step
\* writes the pin.
C18_SuspendedStep ==
    pc \in SuspendPcs =>
        /\ UNCHANGED <<led, blinkLog>>
        /\ pc' \in SuspendPcs \cup {"pm_after"}

\* C18: whenever the CPU is suspended in light sleep or deep sleep the
\* indicator is off: the last pin write before every suspend is the off
\* write that ends the before-transition blink, and no pin write happens
\* between that write and the wake event.
C18_IndicatorOffWhileSuspended ==
    []C18_SuspendedState /\ [][C18_SuspendedStep]_vars

\* C18 witness: the CPU is suspended in deep sleep with the indicator off
\* and no edge pending.
C18_Witness ==
    /\ pc = "wfi"
    /\ pmMode = CY_SYSPM_DEEPSLEEP
    /\ led = LED_OFF
    /\ ~intrPending
    /\ Len(blinkLog) = 13

\* C19, state part: the deep-sleep call returns, suspended and woken or
\* vetoed, to the reset statement of the iteration whose read returned 3,
\* with the counter at 3 or more.
C19_ResetState ==
    pc = "deep_done" =>
        /\ cbMode \in {CY_SYSPM_AFTER_TRANSITION, CY_SYSPM_CHECK_FAIL}
        /\ iterRead = <<DEEP_SLEEP_SWITCH_PRESS>>
        /\ SwitchPressCount >= DEEP_SLEEP_SWITCH_PRESS
        /\ cbMode = CY_SYSPM_AFTER_TRANSITION =>
                SwitchPressCount > DEEP_SLEEP_SWITCH_PRESS

\* C19, step part: whatever the outcome of the call and whatever the counter
\* has reached, the next statement of the main thread sets it to 0.
C19_ResetStep ==
    (pc = "deep_done" /\ MainThreadStep /\ pc' # pc) =>
        /\ SwitchPressCount' = 0
        /\ lastIter' = IF cbMode = CY_SYSPM_CHECK_FAIL
                       THEN "deep_vetoed" ELSE "deep"

\* C19: the main loop sets SwitchPressCount to 0 after every return of the
\* deep-sleep mode-entry call, both when the CPU suspended and woke and when
\* the transition was vetoed and the CPU never suspended; the edges counted
\* between the read of 3 and the reset are discarded by it.
C19_ResetAfterEveryDeepSleepReturn ==
    []C19_ResetState /\ [][C19_ResetStep]_vars

\* C19 witness: a vetoed deep-sleep attempt has returned and the counter has
\* been reset.
C19_Witness ==
    /\ lastIter = "deep_vetoed"
    /\ pc = "led_on"
    /\ iterRead = <<DEEP_SLEEP_SWITCH_PRESS>>
    /\ SwitchPressCount = 0
    /\ isrRuns = 0

====
